---------------------------- MODULE Spec2Model ----------------------------
(***************************************************************************)
(* Model of compiler-service/server.js (front-compiler): the POST /compile *)
(* handler, its sandbox life cycle (create, start, wait/logs raced against *)
(* a deadline timer, archive extraction, forced removal), the decoder of  *)
(* Docker's multiplexed log stream, the Angular source normalization and   *)
(* its base64 embedding, the tar entry handler, and PUT /config.           *)
(*                                                                         *)
(* The handler is an async function: every action below is one turn of    *)
(* the event loop, i.e. the code that runs between two awaits, including   *)
(* the promise continuations (microtasks) that a settlement releases.      *)
(***************************************************************************)
EXTENDS Integers, Sequences, FiniteSets, TLC

(***************************************************************************)
(* JavaScript values as they arrive in a JSON body.  A number carries its  *)
(* finite value in n, or the name of a non-finite value in s.              *)
(***************************************************************************)
Undefined == [t |-> "undefined", n |-> 0, s |-> ""]
Num(i)    == [t |-> "number", n |-> i, s |-> ""]
Str(x)    == [t |-> "string", n |-> 0, s |-> x]
NaN       == [t |-> "number", n |-> 0, s |-> "NaN"]
Infinity  == [t |-> "number", n |-> 0, s |-> "Infinity"]

\* Number(v): a number is itself, a string is parsed ("" is 0, a decimal
\* literal its value, "Infinity" the infinite number, anything else NaN).
ToNumber(v) ==
    CASE v.t = "number" -> v
      [] v.t = "string" ->
            CASE v.s = ""         -> Num(0)
              [] v.s = "1"        -> Num(1)
              [] v.s = "5"        -> Num(5)
              [] v.s = "Infinity" -> Infinity
              [] OTHER            -> NaN
      [] OTHER -> NaN

\* isNaN(x) of a number
isNaN(x) == x.s = "NaN"

\* x <= 0 of a number: false for NaN and for Infinity
LeqZero(x) == x.s = "" /\ x.n <= 0

\* String.prototype.toLowerCase / toUpperCase on the strings the model draws
toLowerCase(x) ==
    CASE x \in {"Angular", "ANGULAR"} -> "angular"
      [] OTHER         -> x

(***************************************************************************)
(* The process-wide defaults when the environment sets none.  Memory is    *)
(* counted in KiB (2 GiB = 2097152 KiB).                                   *)
(***************************************************************************)
COMPILER_MEMORY_KIB == 2097152
COMPILER_CPU_PERIOD == 100000
COMPILER_CPU_QUOTA  == 200000
COMPILER_TIMEOUT_MS == 60000

(***************************************************************************)
(* FRAMEWORKS[key]: a property read on an object literal.  The three own   *)
(* keys give their profile; a name that Object.prototype defines gives the *)
(* inherited (truthy) value; any other key gives undefined.                *)
(***************************************************************************)
OwnKeys == {"angular", "react", "vue"}
ObjectPrototypeKeys == {"constructor", "toString", "valueOf", "hasOwnProperty", "__proto__"}

FRAMEWORKS(key) ==
    IF key \in OwnKeys THEN key
    ELSE IF key \in ObjectPrototypeKeys THEN "inherited"
    ELSE "undefined"

\* !config
Falsy(config) == config = "undefined"

(***************************************************************************)
(* Response bodies.  status 0 means that no response has been sent.        *)
(***************************************************************************)
\* const files = {}
NoFiles == [k \in {} |-> ""]

NoResponse == [status |-> 0, success |-> FALSE, error |-> "", logs |-> <<>>, files |-> NoFiles]

BadRequest(msg) ==
    [status |-> 400, success |-> FALSE, error |-> msg, logs |-> <<>>, files |-> NoFiles]

MsgTimeout   == "Invalid timeout value. Must be a positive number (milliseconds)"
MsgFramework == "Unsupported framework"
MsgCode      == "Invalid code provided"
MsgLimits    == "Invalid resource limits. memory, cpuPeriod, and cpuQuota must be positive numbers"
MsgBuild     == "FRAMEWORK Build Failed"

\* the request fields an error message mentions
FieldsNamed(msg) ==
    CASE msg = MsgTimeout -> {"timeout"}
      [] msg = MsgLimits  -> {"memory", "cpuPeriod", "cpuQuota"}
      [] OTHER            -> {}

InternalError(msg) ==
    [status |-> 500, success |-> FALSE, error |-> msg, logs |-> <<>>, files |-> NoFiles]

BuildFailed(logs) ==
    [status |-> 400, success |-> FALSE, error |-> MsgBuild, logs |-> logs, files |-> NoFiles]

Compiled(files) ==
    [status |-> 200, success |-> TRUE, error |-> "", logs |-> <<>>, files |-> files]

(***************************************************************************)
(* Text is a sequence of code points, a Buffer a sequence of bytes.        *)
(***************************************************************************)
\* 'COMPILATION_COMPLETE'
MARKER == <<67, 79, 77, 80, 73, 76, 65, 84, 73, 79, 78, 95,
            67, 79, 77, 80, 76, 69, 84, 69>>

\* String.prototype.includes
Includes(text, pat) ==
    \E i \in 0..(Len(text) - Len(pat)) : SubSeq(text, i + 1, i + Len(pat)) = pat

\* U+FFFD, which the UTF-8 decoder emits for a byte that starts no complete
\* sequence
REPLACEMENT == 65533

\* The UTF-8 decoder of Buffer.prototype.toString, for one-byte and two-byte
\* sequences (the model draws no lead byte of a longer sequence).
RECURSIVE Utf8Decode(_)
Utf8Decode(b) ==
    IF b = <<>> THEN <<>>
    ELSE IF b[1] < 128 THEN <<b[1]>> \o Utf8Decode(Tail(b))
    ELSE IF b[1] \in 194..223 /\ Len(b) >= 2 /\ b[2] \in 128..191
         THEN <<(b[1] - 192) * 64 + (b[2] - 128)>> \o Utf8Decode(SubSeq(b, 3, Len(b)))
    ELSE <<REPLACEMENT>> \o Utf8Decode(Tail(b))

Min(a, b) == IF a <= b THEN a ELSE b

\* buf.toString('utf8', start, end): end is clamped to the buffer's length
toString(buf, start, end) == Utf8Decode(SubSeq(buf, start + 1, Min(end, Len(buf))))

\* buf.readUInt32BE(at), defined when at + 4 <= buf.length
readUInt32BE(buf, at) ==
    buf[at + 1] * 16777216 + buf[at + 2] * 65536 + buf[at + 3] * 256 + buf[at + 4]

\* The decode loop of waitForCompletion.  threw: readUInt32BE raised a
\* RangeError because fewer than 8 bytes were left at offset.
RECURSIVE DemuxLoop(_, _, _)
DemuxLoop(logsBuffer, offset, cleanLogs) ==
    IF ~(offset < Len(logsBuffer))
    THEN [threw |-> FALSE, cleanLogs |-> cleanLogs]
    ELSE IF offset + 4 + 4 > Len(logsBuffer)
    THEN [threw |-> TRUE, cleanLogs |-> <<>>]
    ELSE LET length == readUInt32BE(logsBuffer, offset + 4) IN
         DemuxLoop(logsBuffer, offset + 8 + length,
                   cleanLogs \o toString(logsBuffer, offset + 8, offset + 8 + length))

DemuxLogs(logsBuffer) == DemuxLoop(logsBuffer, 0, <<>>)

(***************************************************************************)
(* The container runtime's framing of a log record: a stream-type tag,     *)
(* three zero bytes, the payload's length as a big-endian 32-bit number,   *)
(* then the payload.                                                       *)
(***************************************************************************)
UInt32BE(n) == <<n \div 16777216, (n \div 65536) % 256, (n \div 256) % 256, n % 256>>

Frame(rec) == <<rec.tag, 0, 0, 0>> \o UInt32BE(Len(rec.payload)) \o rec.payload

RECURSIVE Frames(_)
Frames(recs) == IF recs = <<>> THEN <<>> ELSE Frame(Head(recs)) \o Frames(Tail(recs))

RECURSIVE Payloads(_)
Payloads(recs) ==
    IF recs = <<>> THEN <<>> ELSE Head(recs).payload \o Payloads(Tail(recs))

Stdout(p) == [tag |-> 1, payload |-> p]
Stderr(p) == [tag |-> 2, payload |-> p]

(***************************************************************************)
(* Source text is a sequence of UTF-16 code units, as a JavaScript string  *)
(* is.  The regular expressions of prepareAngularCode are matched as the   *)
(* engine matches them: leftmost start, `.` never a line terminator, a     *)
(* lazy `.*?` stopping at the first place where the rest matches.          *)
(***************************************************************************)
LineTerminators == {10, 13, 8232, 8233}

\* \s
WhiteSpace ==
    {9, 10, 11, 12, 13, 32, 160, 5760, 8232, 8233, 8239, 8287, 12288, 65279}
        \cup (8192..8202)

\* \w
WordChars == (48..57) \cup (65..90) \cup {95} \cup (97..122)

\* ['"]
Quotes == {39, 34}

\* lit occurs in s at position i (positions count from 1)
StartsAt(s, i, lit) ==
    /\ i + Len(lit) - 1 <= Len(s)
    /\ SubSeq(s, i, i + Len(lit) - 1) = lit

\* class* from position i, greedy: the first position not in the class
RECURSIVE SkipWhile(_, _, _)
SkipWhile(s, i, class) ==
    IF i <= Len(s) /\ s[i] \in class THEN SkipWhile(s, i + 1, class) ELSE i

\* .*? from position i followed by one of lits: the position after the
\* literal, or 0 when a line terminator or the end of s comes first
RECURSIVE Lazy(_, _, _)
Lazy(s, i, lits) ==
    IF \E l \in lits : StartsAt(s, i, l)
    THEN i + Len(CHOOSE l \in lits : StartsAt(s, i, l))
    ELSE IF i > Len(s) \/ s[i] \in LineTerminators THEN 0
    ELSE Lazy(s, i + 1, lits)

\* '@angular/common'
AngularCommon ==
    <<64, 97, 110, 103, 117, 108, 97, 114, 47, 99, 111, 109, 109, 111, 110>>

\* `import { CommonModule } from '@angular/common';\n`
ImportLine ==
    <<105, 109, 112, 111, 114, 116, 32, 123, 32, 67, 111, 109, 109, 111,
      110, 77, 111, 100, 117, 108, 101, 32, 125, 32, 102, 114, 111, 109,
      32, 39, 64, 97, 110, 103, 117, 108, 97, 114, 47, 99, 111, 109, 109,
      111, 110, 39, 59, 10>>

\* selector:
SelectorPrefix ==
    <<115, 101, 108, 101, 99, 116, 111, 114, 58>>

\* "selector: 'app-root'"
SelectorAppRoot ==
    <<115, 101, 108, 101, 99, 116, 111, 114, 58, 32, 39, 97, 112, 112, 45,
      114, 111, 111, 116, 39>>

\* 'export class '
ExportClassPrefix ==
    <<101, 120, 112, 111, 114, 116, 32, 99, 108, 97, 115, 115, 32>>

\* 'export class AppComponent'
ExportClassAppComponent ==
    <<101, 120, 112, 111, 114, 116, 32, 99, 108, 97, 115, 115, 32, 65, 112,
      112, 67, 111, 109, 112, 111, 110, 101, 110, 116>>

\* 'standalone:'
Standalone ==
    <<115, 116, 97, 110, 100, 97, 108, 111, 110, 101, 58>>

\* '@Component({'
ComponentOpen ==
    <<64, 67, 111, 109, 112, 111, 110, 101, 110, 116, 40, 123>>

\* `@Component({\n  standalone: true,`
ComponentStandalone ==
    <<64, 67, 111, 109, 112, 111, 110, 101, 110, 116, 40, 123, 10, 32, 32,
      115, 116, 97, 110, 100, 97, 108, 111, 110, 101, 58, 32, 116, 114,
      117, 101, 44>>

\* templateUrl:
TemplateUrlPrefix ==
    <<116, 101, 109, 112, 108, 97, 116, 101, 85, 114, 108, 58>>

\* styleUrls:
StyleUrlsPrefix ==
    <<115, 116, 121, 108, 101, 85, 114, 108, 115, 58>>

\* styleUrl:
StyleUrlPrefix ==
    <<115, 116, 121, 108, 101, 85, 114, 108, 58>>

(***************************************************************************)
(* Match(re, s, i): the position after the match of re that starts at i,   *)
(* or 0 when re does not match there.  No expression matches the empty     *)
(* string.                                                                 *)
(*   "selector"     /selector:\s*['"].*?['"]/                              *)
(*   "exportClass"  /export class \w+/                                     *)
(*   "component"    /@Component\({/                                        *)
(*   "templateUrl"  /templateUrl:.*?,/g                                    *)
(*   "styleUrls"    /styleUrls:.*?\],/g                                    *)
(*   "styleUrl"     /styleUrl:.*?,/g                                       *)
(***************************************************************************)
Match(re, s, i) ==
    CASE re = "selector" ->
            IF StartsAt(s, i, SelectorPrefix)
            THEN LET j == SkipWhile(s, i + Len(SelectorPrefix), WhiteSpace) IN
                 IF j <= Len(s) /\ s[j] \in Quotes
                 THEN Lazy(s, j + 1, {<<q>> : q \in Quotes})
                 ELSE 0
            ELSE 0
      [] re = "exportClass" ->
            IF StartsAt(s, i, ExportClassPrefix)
            THEN LET j == SkipWhile(s, i + Len(ExportClassPrefix), WordChars) IN
                 IF j > i + Len(ExportClassPrefix) THEN j ELSE 0
            ELSE 0
      [] re = "component" ->
            IF StartsAt(s, i, ComponentOpen) THEN i + Len(ComponentOpen) ELSE 0
      [] re = "templateUrl" ->
            IF StartsAt(s, i, TemplateUrlPrefix)
            THEN Lazy(s, i + Len(TemplateUrlPrefix), {<<44>>})
            ELSE 0
      [] re = "styleUrls" ->
            IF StartsAt(s, i, StyleUrlsPrefix)
            THEN Lazy(s, i + Len(StyleUrlsPrefix), {<<93, 44>>})
            ELSE 0
      [] re = "styleUrl" ->
            IF StartsAt(s, i, StyleUrlPrefix)
            THEN Lazy(s, i + Len(StyleUrlPrefix), {<<44>>})
            ELSE 0

\* the leftmost position at or after from where re matches, 0 when none
FirstMatch(re, s, from) ==
    LET starts == {i \in from..Len(s) : Match(re, s, i) # 0} IN
    IF starts = {} THEN 0
    ELSE CHOOSE i \in starts : \A k \in starts : i <= k

\* s.replace(re, repl) of an expression without the g flag: the first
\* match is replaced (repl holds no `$`)
Replace(s, re, repl) ==
    LET i == FirstMatch(re, s, 1) IN
    IF i = 0 THEN s
    ELSE SubSeq(s, 1, i - 1) \o repl \o SubSeq(s, Match(re, s, i), Len(s))

\* s.replace(re, '') of an expression with the g flag, from position from:
\* every match found scanning s left to right is removed; what the removal
\* leaves is not scanned again
RECURSIVE ReplaceGlobal(_, _, _)
ReplaceGlobal(s, re, from) ==
    LET i == FirstMatch(re, s, from) IN
    IF i = 0 THEN SubSeq(s, from, Len(s))
    ELSE SubSeq(s, from, i - 1) \o ReplaceGlobal(s, re, Match(re, s, i))

prepareAngularCode(userCode) ==
    LET imported   == IF ~Includes(userCode, AngularCommon)
                      THEN ImportLine \o userCode
                      ELSE userCode
        selected   == Replace(imported, "selector", SelectorAppRoot)
        renamed    == Replace(selected, "exportClass", ExportClassAppComponent)
        standalone == IF ~Includes(renamed, Standalone)
                      THEN Replace(renamed, "component", ComponentStandalone)
                      ELSE renamed
        noTemplate == ReplaceGlobal(standalone, "templateUrl", 1)
        noStyles   == ReplaceGlobal(noTemplate, "styleUrls", 1)
    IN  ReplaceGlobal(noStyles, "styleUrl", 1)

(***************************************************************************)
(* Buffer.from(finalCode).toString('base64'): the UTF-8 encoding of the    *)
(* text (a surrogate pair is one code point; a surrogate without its       *)
(* partner is encoded as U+FFFD), then base64 with padding.                *)
(***************************************************************************)
HighSurrogates == 55296..56319
LowSurrogates  == 56320..57343

\* the sequences seqs[lo], ..., seqs[hi] one after the other
RECURSIVE Flatten(_, _, _)
Flatten(seqs, lo, hi) ==
    IF lo > hi THEN <<>>
    ELSE IF lo = hi THEN seqs[lo]
    ELSE LET mid == (lo + hi) \div 2 IN
         Flatten(seqs, lo, mid) \o Flatten(seqs, mid + 1, hi)

\* the bytes that the code unit at position i of s adds to the encoding: a
\* high surrogate followed by a low one gives the four bytes of their code
\* point, and that low surrogate gives none of its own
Utf8Bytes(s, i) ==
    LET c == s[i] IN
    IF c < 128 THEN <<c>>
    ELSE IF c < 2048 THEN <<192 + (c \div 64), 128 + (c % 64)>>
    ELSE IF c \in HighSurrogates /\ i < Len(s) /\ s[i + 1] \in LowSurrogates
    THEN LET cp == 65536 + (c - 55296) * 1024 + (s[i + 1] - 56320) IN
         <<240 + (cp \div 262144), 128 + ((cp \div 4096) % 64),
           128 + ((cp \div 64) % 64), 128 + (cp % 64)>>
    ELSE IF c \in LowSurrogates /\ i > 1 /\ s[i - 1] \in HighSurrogates THEN <<>>
    ELSE IF c \in HighSurrogates \cup LowSurrogates THEN <<239, 191, 189>>
    ELSE <<224 + (c \div 4096), 128 + ((c \div 64) % 64), 128 + (c % 64)>>

Utf8Encode(s) == Flatten([i \in 1..Len(s) |-> Utf8Bytes(s, i)], 1, Len(s))

\* the character of a 6-bit value: A-Z, a-z, 0-9, +, /
Base64Char(n) ==
    IF n < 26 THEN 65 + n
    ELSE IF n < 52 THEN 97 + (n - 26)
    ELSE IF n < 62 THEN 48 + (n - 52)
    ELSE IF n = 62 THEN 43
    ELSE 47

\* the four characters of the g-th group of three bytes of b; a last group
\* of one or two bytes is padded with `=`
Base64Group(b, g) ==
    LET at == 3 * (g - 1)
        b1 == b[at + 1]
        b2 == IF at + 2 <= Len(b) THEN b[at + 2] ELSE 0
        b3 == IF at + 3 <= Len(b) THEN b[at + 3] ELSE 0
    IN  << Base64Char(b1 \div 4),
           Base64Char((b1 % 4) * 16 + (b2 \div 16)),
           IF at + 2 <= Len(b) THEN Base64Char((b2 % 16) * 4 + (b3 \div 64)) ELSE 61,
           IF at + 3 <= Len(b) THEN Base64Char(b3 % 64) ELSE 61 >>

Base64(b) ==
    LET groups == (Len(b) + 2) \div 3 IN
    Flatten([g \in 1..groups |-> Base64Group(b, g)], 1, groups)

(***************************************************************************)
(* createCompilationContainer up to its call of docker.createContainer:    *)
(* the options of that call.  Cmd is held by the four values interpolated  *)
(* into the fixed text of the script,                                      *)
(*     cd /workspace/template-app                                          *)
(*     ${cleanupCmd}                                                       *)
(*     printf '%s' "${base64Code}" | base64 -d > ${filePath}               *)
(*     touch ${filePath}                                                   *)
(*     sync                                                                *)
(*     ${buildCmd} && echo "COMPILATION_COMPLETE"                          *)
(***************************************************************************)
\* the fields of FRAMEWORKS[key] the call reads; the value a key inherits
\* from Object.prototype has none of them
Profile(config) ==
    CASE config = "angular" ->
            [image |-> "angular-compiler:latest", filePath |-> "src/app/app.ts",
             buildCmd |-> "ng build --configuration production --output-hashing none --optimization true --source-map true --progress false"]
      [] config = "react" ->
            [image |-> "react-compiler:latest", filePath |-> "src/App.tsx",
             buildCmd |-> "npm run build"]
      [] config = "vue" ->
            [image |-> "vue-compiler:latest", filePath |-> "src/App.vue",
             buildCmd |-> "npx vite build"]
      [] OTHER ->
            [image |-> "undefined", filePath |-> "undefined", buildCmd |-> "undefined"]

cleanupCmd(framework) ==
    IF framework = "vue" THEN "rm -f src/components/*.vue && "
    ELSE IF framework = "react" THEN "rm -f src/*.css src/App.tsx && "
    ELSE IF framework = "angular"
    THEN "rm -f src/app/app.ts src/app/app.component.html src/app/app.component.css && "
    ELSE ""

\* resourceLimits here is the object the handler built: its memory,
\* cpuPeriod and cpuQuota are numbers, so `??` takes the left operand
createCompilationContainer(userCode, config, framework, limits) ==
    LET finalCode  == IF framework = "angular"
                      THEN prepareAngularCode(userCode)
                      ELSE userCode
        base64Code == Base64(Utf8Encode(finalCode))
    IN  [Image |-> Profile(config).image,
         Cmd |-> [cleanupCmd |-> cleanupCmd(framework),
                  base64Code |-> base64Code,
                  filePath |-> Profile(config).filePath,
                  buildCmd |-> Profile(config).buildCmd],
         HostConfig |-> [Memory |-> limits.memory,
                         CpuPeriod |-> limits.cpuPeriod,
                         CpuQuota |-> limits.cpuQuota]]

\* docker.createContainer has not been called
NoContainer ==
    [Image |-> "",
     Cmd |-> [cleanupCmd |-> "", base64Code |-> <<>>, filePath |-> "", buildCmd |-> ""],
     HostConfig |-> [Memory |-> Undefined, CpuPeriod |-> Undefined,
                     CpuQuota |-> Undefined]]

NoSource == [framework |-> "", userCode |-> <<>>]

\* the code units of the code strings the bodies carry
CodeUnits(x) ==
    CASE x = "source" -> <<115, 111, 117, 114, 99, 101>>
      [] OTHER        -> <<>>

(***************************************************************************)
(* Inputs: the JSON bodies of POST /compile and what the container runtime *)
(* answers.                                                                *)
(***************************************************************************)
\* values a numeric override arrives with: absent, positive, zero, negative,
\* not a number, infinite
NumericInputs == {Undefined, Num(5), Num(0), Num(-1), Str("abc"), Str("Infinity")}

FrameworkInputs ==
    {Undefined, Str("angular"), Str("react"), Str("vue"), Str("Angular"),
     Str("svelte"), Str("constructor"), Num(5)}

CodeInputs == {Undefined, Str(""), Num(7), Str("source")}

Bodies ==
    [code : CodeInputs, framework : FrameworkInputs, timeout : NumericInputs,
     memory : NumericInputs, cpuPeriod : NumericInputs, cpuQuota : NumericInputs]

\* waitResult.StatusCode
StatusCodes == {0, 1}

\* buffers container.logs resolves with: no record; the marker in one
\* record; the marker split over a stdout and a stderr record; output
\* without the marker; a record followed by an incomplete header
LogBuffers ==
    { Frames(<<>>),
      Frames(<<Stdout(MARKER)>>),
      Frames(<<Stdout(SubSeq(MARKER, 1, 11)), Stderr(SubSeq(MARKER, 12, 20))>>),
      Frames(<<Stderr(<<120>>), Stdout(<<>>)>>),
      Frames(<<Stdout(MARKER)>>) \o <<1, 0, 0>> }

(***************************************************************************)
(* State                                                                   *)
(***************************************************************************)
VARIABLES
    DOCKER_LIMITS,               \* process-wide default limits
    DEFAULT_COMPILE_TIMEOUT_MS,  \* process-wide default timeout
    pc,                \* where the /compile handler is suspended
    body,              \* req.body of the request being handled
    compileTimeoutMs,  \* the handler's effective timeout
    resourceLimits,    \* the handler's effective limits
    container,         \* the handler's `container` is assigned
    calls,             \* container-runtime calls issued so far, in order
    responses,         \* responses sent on res, in order
    escaped,           \* an error left the handler (its promise rejected)
    cleanupErrors,     \* "Cleanup error:" lines logged
    result,            \* the promise waitForCompletion returns
    wpc,               \* where waitForCompletion's async body is: "none", awaiting
                       \* "wait" or "logs", ended "classified" or "caught"
    timeoutId,         \* the deadline timer: "none", "armed", "fired", "cleared"
    waitResult,        \* StatusCode container.wait resolved with (-1: none)
    logsBuffer,        \* what container.logs resolved with
    created,           \* the options docker.createContainer was called with
    tarStream,         \* getArchive's stream: "none", "rejected", "open",
                       \* "finished", "errored"
    extracted,         \* the files object of extractCompiledFiles
    configStatus,      \* status of the last PUT /config response (0: none)
    timerMs,           \* the delay setTimeout was called with
    records,           \* log records the runtime framed (decoder runs)
    demuxed,           \* what the decode loop made of their framing
    archive,           \* tar entries the extractor was fed, in order
    src                \* arguments of createCompilationContainer (runs of it alone)

jobVars == <<pc, body, compileTimeoutMs, resourceLimits, container, calls,
             responses, escaped, cleanupErrors, result, wpc, timeoutId,
             waitResult, logsBuffer>>

extractVars == <<tarStream, extracted, archive>>

vars == <<DOCKER_LIMITS, DEFAULT_COMPILE_TIMEOUT_MS, pc, body, compileTimeoutMs,
          resourceLimits, container, calls, responses, escaped, cleanupErrors,
          result, wpc, timeoutId, waitResult, logsBuffer, created, tarStream,
          extracted, configStatus, timerMs, records, demuxed, archive, src>>

NoBody ==
    [code |-> Undefined, framework |-> Undefined, timeout |-> Undefined,
     memory |-> Undefined, cpuPeriod |-> Undefined, cpuQuota |-> Undefined]

NoLimits == [memory |-> Undefined, cpuPeriod |-> Undefined, cpuQuota |-> Undefined]

\* the promise of waitForCompletion before it is resolved
Pending == [settled |-> FALSE, success |-> FALSE, error |-> "", logs |-> <<>>]

Resolved(success, error, logs) ==
    [settled |-> TRUE, success |-> success, error |-> error, logs |-> logs]

\* the decode loop has not run
NotDemuxed == [done |-> FALSE, threw |-> FALSE, cleanLogs |-> <<>>]

JobInit ==
    /\ DOCKER_LIMITS = [MEMORY |-> Num(COMPILER_MEMORY_KIB),
                        CPU_PERIOD |-> Num(COMPILER_CPU_PERIOD),
                        CPU_QUOTA |-> Num(COMPILER_CPU_QUOTA)]
    /\ DEFAULT_COMPILE_TIMEOUT_MS = Num(COMPILER_TIMEOUT_MS)
    /\ pc = "idle"
    /\ body = NoBody
    /\ compileTimeoutMs = Undefined
    /\ resourceLimits = NoLimits
    /\ container = FALSE
    /\ calls = <<>>
    /\ responses = <<>>
    /\ escaped = FALSE
    /\ cleanupErrors = 0
    /\ result = Pending
    /\ wpc = "none"
    /\ timeoutId = "none"
    /\ waitResult = -1
    /\ logsBuffer = <<>>

\* everything but the job and the process-wide defaults, before any run
RestInit ==
    /\ created = NoContainer
    /\ tarStream = "none"
    /\ extracted = NoFiles
    /\ configStatus = 0
    /\ timerMs = Undefined
    /\ demuxed = NotDemuxed

Init ==
    /\ JobInit
    /\ RestInit
    /\ records = <<>>
    /\ archive = <<>>
    /\ src = NoSource

(***************************************************************************)
(* POST /compile, up to its first await                                    *)
(***************************************************************************)
\* !v of a JavaScript value
Not(v) ==
    \/ v.t = "undefined"
    \/ v.t = "string" /\ v.s = ""
    \/ v.t = "number" /\ (v.s = "NaN" \/ (v.s = "" /\ v.n = 0))

\* the destructuring default: framework = 'angular'
FrameworkOf(b) == IF b.framework = Undefined THEN Str("angular") ELSE b.framework

\* timeout !== undefined ? Number(timeout) : DEFAULT_COMPILE_TIMEOUT_MS
EffectiveTimeout(b, defaultTimeout) ==
    IF b.timeout # Undefined THEN ToNumber(b.timeout) ELSE defaultTimeout

\* resourceLimits with every field from the defaults as soon as one override
\* is absent
EffectiveLimitsAllOrNothing(b, defaults) ==
    IF Undefined \in {b.memory, b.cpuPeriod, b.cpuQuota}
    THEN [memory |-> defaults.MEMORY, cpuPeriod |-> defaults.CPU_PERIOD,
          cpuQuota |-> defaults.CPU_QUOTA]
    ELSE [memory |-> ToNumber(b.memory), cpuPeriod |-> ToNumber(b.cpuPeriod),
          cpuQuota |-> ToNumber(b.cpuQuota)]

\* the resourceLimits object of the handler
EffectiveLimits(b, defaults) ==
    [memory    |-> IF b.memory # Undefined THEN ToNumber(b.memory) ELSE defaults.MEMORY,
     cpuPeriod |-> IF b.cpuPeriod # Undefined THEN ToNumber(b.cpuPeriod)
                   ELSE defaults.CPU_PERIOD,
     cpuQuota  |-> IF b.cpuQuota # Undefined THEN ToNumber(b.cpuQuota)
                   ELSE defaults.CPU_QUOTA]

\* The handler's validation, in its order: the message of the 400 response
\* it returns, or "" when it goes on to create the container.
Validate(b, config, timeoutMs, limits) ==
    IF isNaN(timeoutMs) \/ LeqZero(timeoutMs) THEN MsgTimeout
    ELSE IF Falsy(config) THEN MsgFramework
    ELSE IF Not(b.code) \/ b.code.t # "string" THEN MsgCode
    ELSE IF \/ isNaN(limits.memory) \/ LeqZero(limits.memory)
            \/ isNaN(limits.cpuPeriod) \/ LeqZero(limits.cpuPeriod)
            \/ isNaN(limits.cpuQuota) \/ LeqZero(limits.cpuQuota)
         THEN MsgLimits
    ELSE ""

PostCompile(b) ==
    /\ pc = "idle"
    /\ body' = b
    /\ IF FrameworkOf(b).t # "string"
       THEN \* framework.toLowerCase is not a function: the handler throws
            \* before its try block and its promise rejects.  The handler
            \* sends nothing; a router that watches the promise (Express 5)
            \* answers 500 with its default error handler, one that does
            \* not (Express 4) leaves the request unanswered.
            /\ escaped' = TRUE
            /\ pc' = "done"
            /\ \E routerAnswers \in BOOLEAN :
                  responses' = IF routerAnswers
                               THEN Append(responses, InternalError("TypeError"))
                               ELSE responses
            /\ UNCHANGED <<compileTimeoutMs, resourceLimits, calls, created>>
       ELSE LET config    == FRAMEWORKS(toLowerCase(FrameworkOf(b).s))
                timeoutMs == EffectiveTimeout(b, DEFAULT_COMPILE_TIMEOUT_MS)
                limits    == EffectiveLimits(b, DOCKER_LIMITS)
                msg       == Validate(b, config, timeoutMs, limits)
            IN  /\ compileTimeoutMs' = timeoutMs
                /\ escaped' = FALSE
                /\ IF msg # ""
                   THEN /\ responses' = Append(responses, BadRequest(msg))
                        /\ pc' = "done"
                        /\ UNCHANGED <<resourceLimits, calls, created>>
                   ELSE \* createCompilationContainer: docker.createContainer
                        /\ resourceLimits' = limits
                        /\ created' = createCompilationContainer(
                                          CodeUnits(b.code.s), config,
                                          FrameworkOf(b).s, limits)
                        /\ calls' = Append(calls, "createContainer")
                        /\ pc' = "create"
                        /\ UNCHANGED responses
    /\ UNCHANGED <<extractVars, src, configStatus, timerMs, records, demuxed, DOCKER_LIMITS,
                   DEFAULT_COMPILE_TIMEOUT_MS, container,
                   cleanupErrors, result, wpc, timeoutId, waitResult, logsBuffer>>

\* Finally with the removal forgotten
FinallyWithoutRemove(had, calls1) ==
    /\ calls' = calls1
    /\ pc' = "done"

(***************************************************************************)
(* The finally block: remove the container when one was assigned.  `had`   *)
(* is the value of `container` when the block is entered.                  *)
(***************************************************************************)
Finally(had, calls1) ==
    IF had
    THEN /\ calls' = Append(calls1, "remove")
         /\ pc' = "remove"
    ELSE /\ calls' = calls1
         /\ pc' = "done"

\* docker.createContainer resolves: the handle is assigned, container.start
CreateResolves ==
    /\ pc = "create"
    /\ container' = TRUE
    /\ calls' = Append(calls, "start")
    /\ pc' = "start"
    /\ UNCHANGED <<extractVars, created, src, configStatus, timerMs, records, demuxed, DOCKER_LIMITS,
                   DEFAULT_COMPILE_TIMEOUT_MS, body, compileTimeoutMs,
                   resourceLimits, responses, escaped, cleanupErrors, result, wpc,
                   timeoutId, waitResult, logsBuffer>>

\* CreateRejects trying docker.createContainer again instead of answering
CreateRejectsRetries ==
    /\ pc = "create"
    /\ calls' = Append(calls, "createContainer")
    /\ UNCHANGED <<pc, responses>>
    /\ UNCHANGED <<extractVars, created, src, configStatus, timerMs, records, demuxed,
                   DOCKER_LIMITS, DEFAULT_COMPILE_TIMEOUT_MS, body, compileTimeoutMs,
                   resourceLimits, container, escaped, cleanupErrors, result, wpc,
                   timeoutId, waitResult, logsBuffer>>

\* docker.createContainer rejects: catch answers 500, finally finds no handle
CreateRejects ==
    /\ pc = "create"
    /\ responses' = Append(responses, InternalError("createContainer failed"))
    /\ Finally(container, calls)
    /\ UNCHANGED <<extractVars, created, src, configStatus, timerMs, records, demuxed, DOCKER_LIMITS,
                   DEFAULT_COMPILE_TIMEOUT_MS, body, compileTimeoutMs,
                   resourceLimits, container, escaped, cleanupErrors, result, wpc,
                   timeoutId, waitResult, logsBuffer>>

\* StartResolves arming the timer with the default timeout of that moment
StartResolvesDefaultTimeout ==
    /\ pc = "start"
    /\ timeoutId' = "armed"
    /\ timerMs' = DEFAULT_COMPILE_TIMEOUT_MS
    /\ calls' = Append(calls, "wait")
    /\ wpc' = "wait"
    /\ pc' = "wait"
    /\ UNCHANGED <<extractVars, created, src, configStatus, records, demuxed,
                   DOCKER_LIMITS, DEFAULT_COMPILE_TIMEOUT_MS, body, compileTimeoutMs,
                   resourceLimits, container, responses, escaped, cleanupErrors,
                   result, waitResult, logsBuffer>>

\* container.start resolves: waitForCompletion(container, compileTimeoutMs)
\* arms the timer and its async body calls container.wait
StartResolves ==
    /\ pc = "start"
    /\ timeoutId' = "armed"
    /\ timerMs' = compileTimeoutMs
    /\ calls' = Append(calls, "wait")
    /\ wpc' = "wait"
    /\ pc' = "wait"
    /\ UNCHANGED <<extractVars, created, src, configStatus, records, demuxed,
                   DOCKER_LIMITS, DEFAULT_COMPILE_TIMEOUT_MS, body, compileTimeoutMs,
                   resourceLimits, container, responses, escaped, cleanupErrors,
                   result, waitResult, logsBuffer>>

StartRejects ==
    /\ pc = "start"
    /\ responses' = Append(responses, InternalError("start failed"))
    /\ Finally(container, calls)
    /\ UNCHANGED <<extractVars, created, src, configStatus, timerMs, records, demuxed, DOCKER_LIMITS,
                   DEFAULT_COMPILE_TIMEOUT_MS, body, compileTimeoutMs,
                   resourceLimits, container, escaped, cleanupErrors, result, wpc,
                   timeoutId, waitResult, logsBuffer>>

(***************************************************************************)
(* Artifact collection: the entry handler of extractCompiledFiles.  A name *)
(* is a sequence of characters, an ArtifactSet a function from names to    *)
(* bodies.                                                                 *)
(***************************************************************************)
Max(S) == CHOOSE x \in S : \A y \in S : y <= x

\* header.name.split('/').pop()
BaseName(name) ==
    LET slashes == {i \in 1..Len(name) : name[i] = "/"} IN
    IF slashes = {} THEN name ELSE SubSeq(name, Max(slashes) + 1, Len(name))

EndsWith(x, suffix) ==
    /\ Len(x) >= Len(suffix)
    /\ SubSeq(x, Len(x) - Len(suffix) + 1, Len(x)) = suffix

\* /\.(js|css|html|map)$/.test(filename)
Extensions ==
    { <<".", "j", "s">>, <<".", "c", "s", "s">>, <<".", "h", "t", "m", "l">>,
      <<".", "m", "a", "p">> }

MatchesExtension(filename) == \E e \in Extensions : EndsWith(filename, e)

\* Buffer.concat(chunks)
RECURSIVE Concat(_)
Concat(chunks) == IF chunks = <<>> THEN <<>> ELSE Head(chunks) \o Concat(Tail(chunks))

\* the entry handler without the test of header.type
OnEntryAnyType(files, header) ==
    LET filename == BaseName(header.name) IN
    IF MatchesExtension(filename)
    THEN [k \in DOMAIN files \cup {filename} |->
             IF k = filename THEN Utf8Decode(Concat(header.chunks)) ELSE files[k]]
    ELSE files

\* the entry handler never overwriting a key
OnEntryKeepsFirst(files, header) ==
    LET filename == BaseName(header.name) IN
    IF header.type = "file" /\ MatchesExtension(filename) /\ filename \notin DOMAIN files
    THEN [k \in DOMAIN files \cup {filename} |->
             IF k = filename THEN Utf8Decode(Concat(header.chunks)) ELSE files[k]]
    ELSE files

\* the 'end' handler of an entry's stream; header.chunks are the chunks its
\* 'data' handler pushed
OnEntry(files, header) ==
    LET filename == BaseName(header.name) IN
    IF header.type = "file" /\ MatchesExtension(filename)
    THEN [k \in DOMAIN files \cup {filename} |->
             IF k = filename THEN Utf8Decode(Concat(header.chunks)) ELSE files[k]]
    ELSE files

RECURSIVE ExtractEntries(_, _)
ExtractEntries(files, entries) ==
    IF entries = <<>> THEN files
    ELSE ExtractEntries(OnEntry(files, Head(entries)), Tail(entries))

File(name, chunks) == [name |-> name, type |-> "file", chunks |-> chunks]
Directory(name)    == [name |-> name, type |-> "directory", chunks |-> <<>>]
Symlink(name)      == [name |-> name, type |-> "symlink", chunks |-> <<>>]

\* archives container.getArchive streams
Archives ==
    { <<>>,
      << File(<<"a", ".", "j", "s">>, <<<<65>>>>),
         File(<<"b", ".", "C", "S", "S">>, <<<<66>>>>),
         Directory(<<"d", "/">>),
         File(<<"d", "/", "c", ".", "h", "t", "m", "l">>, <<<<67>>>>) >>,
      << File(<<"x", "/", "m", ".", "j", "s">>, <<<<49>>>>),
         File(<<"y", "/", "m", ".", "j", "s">>, <<<<50>>>>) >> }

(***************************************************************************)
(* waitForCompletion: the deadline timer raced against wait + logs         *)
(***************************************************************************)
\* a promise takes the first resolution only
Settle(promise, value) == IF promise.settled THEN promise ELSE value

\* clearTimeout(timeoutId)
ClearTimeout(t) == IF t = "armed" THEN "cleared" ELSE t

\* TimeoutResult carrying a transcript
TimeoutResultWithLogs == [settled |-> TRUE, success |-> FALSE,
                          error |-> "Compilation timeout", logs |-> MARKER]

\* what the timer callback resolves with
TimeoutResult == Resolved(FALSE, "Compilation timeout", <<>>)

\* what the catch block resolves with
CaughtResult(message) == Resolved(FALSE, message, <<>>)

\* Classify by the exit status alone
ClassifyByStatus(StatusCode, cleanLogs) ==
    IF StatusCode = 0
    THEN Resolved(TRUE, "", cleanLogs)
    ELSE Resolved(FALSE, "Build Failed", cleanLogs)

\* the classification after the decode loop
Classify(StatusCode, cleanLogs) ==
    IF StatusCode = 0 /\ Includes(cleanLogs, MARKER)
    THEN Resolved(TRUE, "", cleanLogs)
    ELSE Resolved(FALSE, "Build Failed", cleanLogs)

\* AfterWait going on to getArchive whatever the result
AfterWaitAlwaysExtracts(r, calls1) ==
    /\ calls' = Append(calls1, "getArchive")
    /\ pc' = "extract"
    /\ UNCHANGED responses

\* The handler resumes from `await waitForCompletion(...)` with r: a failure
\* is answered 400 and runs finally; a success calls getArchive.
AfterWait(r, calls1) ==
    IF ~r.success
    THEN /\ responses' = Append(responses, BuildFailed(r.logs))
         /\ Finally(container, calls1)
    ELSE /\ calls' = Append(calls1, "getArchive")
         /\ pc' = "extract"
         /\ UNCHANGED responses

\* Resolve as a plain callback: every call takes effect and resumes the handler
ResolveEveryTime(value, calls1) ==
    /\ result' = value
    /\ AfterWait(value, calls1)

\* resolve(value) in waitForCompletion and, when it settles the promise, the
\* continuation of the handler
Resolve(value, calls1) ==
    /\ result' = Settle(result, value)
    /\ IF result.settled
       THEN /\ calls' = calls1
            /\ UNCHANGED <<pc, responses>>
       ELSE AfterWait(value, calls1)

\* the timer callback resolving nothing
TimerFiresWithoutResolving ==
    /\ timeoutId = "armed"
    /\ timeoutId' = "fired"
    /\ UNCHANGED <<extractVars, created, src, configStatus, timerMs, records, demuxed,
                   DOCKER_LIMITS, DEFAULT_COMPILE_TIMEOUT_MS, body, compileTimeoutMs,
                   resourceLimits, container, escaped, cleanupErrors, wpc,
                   waitResult, logsBuffer, result, calls, pc, responses>>

TimerFires ==
    /\ timeoutId = "armed"
    /\ timeoutId' = "fired"
    /\ Resolve(TimeoutResult, calls)
    /\ UNCHANGED <<extractVars, created, src, configStatus, timerMs, records, demuxed, DOCKER_LIMITS,
                   DEFAULT_COMPILE_TIMEOUT_MS, body, compileTimeoutMs,
                   resourceLimits, container, escaped, cleanupErrors, wpc,
                   waitResult, logsBuffer>>

\* container.wait resolves: container.logs is called
WaitResolves(StatusCode) ==
    /\ wpc = "wait"
    /\ waitResult' = StatusCode
    /\ calls' = Append(calls, "logs")
    /\ wpc' = "logs"
    /\ UNCHANGED <<extractVars, created, src, configStatus, timerMs, records, demuxed, DOCKER_LIMITS,
                   DEFAULT_COMPILE_TIMEOUT_MS, pc, body,
                   compileTimeoutMs, resourceLimits, container, responses, escaped,
                   cleanupErrors, result, timeoutId, logsBuffer>>

WaitRejects ==
    /\ wpc = "wait"
    /\ wpc' = "caught"
    /\ timeoutId' = ClearTimeout(timeoutId)
    /\ Resolve(CaughtResult("wait failed"), calls)
    /\ UNCHANGED <<extractVars, created, src, configStatus, timerMs, records, demuxed, DOCKER_LIMITS,
                   DEFAULT_COMPILE_TIMEOUT_MS, body, compileTimeoutMs,
                   resourceLimits, container, escaped, cleanupErrors, waitResult,
                   logsBuffer>>

\* container.logs resolves: decode, clear the timer, classify; a RangeError
\* of the decode loop goes to the catch block
LogsResolves(buf) ==
    /\ wpc = "logs"
    /\ logsBuffer' = buf
    /\ timeoutId' = ClearTimeout(timeoutId)
    /\ LET d == DemuxLogs(buf) IN
       IF d.threw
       THEN /\ wpc' = "caught"
            /\ Resolve(CaughtResult("RangeError"), calls)
       ELSE /\ wpc' = "classified"
            /\ Resolve(Classify(waitResult, d.cleanLogs), calls)
    /\ UNCHANGED <<extractVars, created, src, configStatus, timerMs, records, demuxed, DOCKER_LIMITS,
                   DEFAULT_COMPILE_TIMEOUT_MS, body, compileTimeoutMs,
                   resourceLimits, container, escaped, cleanupErrors, waitResult>>

LogsRejects ==
    /\ wpc = "logs"
    /\ wpc' = "caught"
    /\ timeoutId' = ClearTimeout(timeoutId)
    /\ Resolve(CaughtResult("logs failed"), calls)
    /\ UNCHANGED <<extractVars, created, src, configStatus, timerMs, records, demuxed, DOCKER_LIMITS,
                   DEFAULT_COMPILE_TIMEOUT_MS, body, compileTimeoutMs,
                   resourceLimits, container, escaped, cleanupErrors, waitResult,
                   logsBuffer>>

(***************************************************************************)
(* extractCompiledFiles, the success response, and the removal             *)
(***************************************************************************)
handlerOnly == <<created, src, configStatus, timerMs, records, demuxed, DOCKER_LIMITS,
                 DEFAULT_COMPILE_TIMEOUT_MS, body, compileTimeoutMs,
                 resourceLimits, container, escaped, cleanupErrors, result, wpc,
                 timeoutId, waitResult, logsBuffer>>

\* getArchive rejects: the catch of extractCompiledFiles returns {}
GetArchiveRejects ==
    /\ pc = "extract"
    /\ tarStream' = "rejected"
    /\ responses' = Append(responses, Compiled(NoFiles))
    /\ Finally(container, calls)
    /\ UNCHANGED <<extracted, archive>>
    /\ UNCHANGED handlerOnly

\* getArchive resolves: the tar stream is piped into the extractor
GetArchiveResolves ==
    /\ pc = "extract"
    /\ pc' = "extracting"
    /\ tarStream' = "open"
    /\ UNCHANGED <<calls, responses, extracted, archive>>
    /\ UNCHANGED handlerOnly

\* the extractor emits 'finish' after the entries of the archive
ExtractFinishes(entries) ==
    /\ pc = "extracting"
    /\ archive' = entries
    /\ extracted' = ExtractEntries(NoFiles, entries)
    /\ tarStream' = "finished"
    /\ responses' = Append(responses, Compiled(extracted'))
    /\ Finally(container, calls)
    /\ UNCHANGED handlerOnly

\* the extractor emits 'error': the returned promise rejects, which the
\* try block of extractCompiledFiles no longer covers; the handler's catch
\* answers 500
ExtractErrors ==
    /\ pc = "extracting"
    /\ tarStream' = "errored"
    /\ responses' = Append(responses, InternalError("archive error"))
    /\ Finally(container, calls)
    /\ UNCHANGED <<extracted, archive>>
    /\ UNCHANGED handlerOnly

\* AfterRemove without the inner try/catch: a rejection leaves the handler
AfterRemoveRethrows(threw) ==
    /\ cleanupErrors' = cleanupErrors
    /\ escaped' = threw
    /\ pc' = "done"

\* the outcome of `await container.remove({ force: true })`: a rejection is
\* caught and logged
AfterRemove(threw) ==
    /\ cleanupErrors' = IF threw THEN cleanupErrors + 1 ELSE cleanupErrors
    /\ escaped' = escaped
    /\ pc' = "done"

RemoveResolves ==
    /\ pc = "remove"
    /\ AfterRemove(FALSE)
    /\ UNCHANGED <<extractVars, created, src, configStatus, timerMs, records, demuxed, DOCKER_LIMITS,
                   DEFAULT_COMPILE_TIMEOUT_MS, body, compileTimeoutMs,
                   resourceLimits, container, calls, responses, result, wpc,
                   timeoutId, waitResult, logsBuffer>>

RemoveRejects ==
    /\ pc = "remove"
    /\ AfterRemove(TRUE)
    /\ UNCHANGED <<extractVars, created, src, configStatus, timerMs, records, demuxed, DOCKER_LIMITS,
                   DEFAULT_COMPILE_TIMEOUT_MS, body, compileTimeoutMs,
                   resourceLimits, container, calls, responses, result, wpc,
                   timeoutId, waitResult, logsBuffer>>

\* a request arrives
CompileRequest == pc = "idle" /\ \E b \in Bodies : PostCompile(b)

Next ==
    \/ CompileRequest
    \/ CreateResolves
    \/ CreateRejects
    \/ StartResolves
    \/ StartRejects
    \/ TimerFires
    \/ \E c \in StatusCodes : WaitResolves(c)
    \/ WaitRejects
    \/ \E buf \in LogBuffers : LogsResolves(buf)
    \/ LogsRejects
    \/ GetArchiveRejects
    \/ GetArchiveResolves
    \/ \E a \in Archives : ExtractFinishes(a)
    \/ ExtractErrors
    \/ RemoveResolves
    \/ RemoveRejects

Spec == Init /\ [][Next]_vars

(***************************************************************************)
(* The job under a runtime that answers: an armed timer fires unless it is *)
(* cleared first, and a pending createContainer, start, logs, getArchive   *)
(* or remove call resolves or rejects.  Nothing is assumed of              *)
(* container.wait, nor of the archive stream once getArchive has resolved  *)
(* with it.                                                                *)
(***************************************************************************)
CreateReturns     == CreateResolves \/ CreateRejects
StartReturns      == StartResolves \/ StartRejects
LogsReturns       == (\E buf \in LogBuffers : LogsResolves(buf)) \/ LogsRejects
GetArchiveReturns == GetArchiveResolves \/ GetArchiveRejects
RemoveReturns     == RemoveResolves \/ RemoveRejects

\* the archive stream comes to its end: the extractor emits 'finish' or 'error'
StreamEnds == (\E a \in Archives : ExtractFinishes(a)) \/ ExtractErrors

SpecLive ==
    /\ Init
    /\ [][Next]_vars
    /\ WF_vars(TimerFires)
    /\ WF_vars(CreateReturns)
    /\ WF_vars(StartReturns)
    /\ WF_vars(LogsReturns)
    /\ WF_vars(GetArchiveReturns)
    /\ WF_vars(RemoveReturns)

(***************************************************************************)
(* The decode loop on its own: the runtime frames a sequence of records,   *)
(* the loop of waitForCompletion decodes the buffer.                       *)
(***************************************************************************)
MaxRecords == 2

\* payloads: empty, "x", the two bytes of U+00E9, and each of them alone (a
\* character that the runtime split over two records)
DemuxPayloads == {<<>>, <<120>>, <<195, 169>>, <<195>>, <<169>>}

DemuxRecords == [tag : {1, 2}, payload : DemuxPayloads]

RecordSeqs == UNION {[1..n -> DemuxRecords] : n \in 0..MaxRecords}

InitDemux ==
    /\ JobInit
    /\ RestInit
    /\ records \in RecordSeqs
    /\ archive = <<>>
    /\ src = NoSource

Demux ==
    /\ ~demuxed.done
    /\ LET d == DemuxLogs(Frames(records)) IN
       demuxed' = [done |-> TRUE, threw |-> d.threw, cleanLogs |-> d.cleanLogs]
    /\ UNCHANGED <<records, DOCKER_LIMITS, DEFAULT_COMPILE_TIMEOUT_MS, created,
                   configStatus, timerMs, src>>
    /\ UNCHANGED jobVars
    /\ UNCHANGED extractVars

NextDemux == Demux

SpecDemux == InitDemux /\ [][NextDemux]_vars

(***************************************************************************)
(* The entry handler on its own: the extractor is fed the entries of an    *)
(* archive in their order and emits 'finish'.                              *)
(***************************************************************************)
MaxEntries == 3

\* a.js; b.CSS; the directory d/; d/c.html, whose body (U+00E9) arrives in
\* two chunks; x/m.js and y/m.js; a symbolic link z/m.js; n.txt; a directory
\* named k.js; an empty file .map
ArchiveEntries ==
    { File(<<"a", ".", "j", "s">>, <<<<65>>>>),
      File(<<"b", ".", "C", "S", "S">>, <<<<66>>>>),
      Directory(<<"d", "/">>),
      File(<<"d", "/", "c", ".", "h", "t", "m", "l">>, <<<<195>>, <<169>>>>),
      File(<<"x", "/", "m", ".", "j", "s">>, <<<<49>>>>),
      File(<<"y", "/", "m", ".", "j", "s">>, <<<<50>>>>),
      Symlink(<<"z", "/", "m", ".", "j", "s">>),
      File(<<"n", ".", "t", "x", "t">>, <<<<78>>>>),
      Directory(<<"k", ".", "j", "s">>),
      File(<<".", "m", "a", "p">>, <<>>) }

EntrySeqs == UNION {[1..n -> ArchiveEntries] : n \in 0..MaxEntries}

InitExtract ==
    /\ JobInit
    /\ RestInit
    /\ records = <<>>
    /\ archive \in EntrySeqs
    /\ src = NoSource

Extract ==
    /\ tarStream = "none"
    /\ tarStream' = "finished"
    /\ extracted' = ExtractEntries(NoFiles, archive)
    /\ UNCHANGED <<archive, records, demuxed, DOCKER_LIMITS,
                   DEFAULT_COMPILE_TIMEOUT_MS, created, configStatus, timerMs, src>>
    /\ UNCHANGED jobVars

NextExtract == Extract

SpecExtract == InitExtract /\ [][NextExtract]_vars

(***************************************************************************)
(* createCompilationContainer on its own: called with a framework name     *)
(* that the lookup accepted and a source text, it builds the options of    *)
(* docker.createContainer.                                                 *)
(***************************************************************************)
MaxChunks == 2

\* framework values for which FRAMEWORKS[framework.toLowerCase()] is a profile
FrameworkNames == {"angular", "react", "vue", "Angular", "ANGULAR"}

\* pieces of source text
Chunks ==
    {
      \* @Component({
      <<64, 67, 111, 109, 112, 111, 110, 101, 110, 116, 40, 123>>,
      \* templateUrl: standalone: x,
      <<116, 101, 109, 112, 108, 97, 116, 101, 85, 114, 108, 58, 32, 115,
        116, 97, 110, 100, 97, 108, 111, 110, 101, 58, 32, 120, 44>>,
      \* template
      <<116, 101, 109, 112, 108, 97, 116, 101>>,
      \* styleUrl: x,Url: y,
      <<115, 116, 121, 108, 101, 85, 114, 108, 58, 32, 120, 44, 85, 114,
        108, 58, 32, 121, 44>>,
      \* selector: "a"
      <<115, 101, 108, 101, 99, 116, 111, 114, 58, 32, 34, 97, 34>>,
      \* export class A {}
      <<101, 120, 112, 111, 114, 116, 32, 99, 108, 97, 115, 115, 32, 65,
        32, 123, 125>>,
      \* styleUrls: [a, b],
      <<115, 116, 121, 108, 101, 85, 114, 108, 115, 58, 32, 91, 97, 44, 32,
        98, 93, 44>>,
      \* import '@angular/common';
      <<105, 109, 112, 111, 114, 116, 32, 39, 64, 97, 110, 103, 117, 108,
        97, 114, 47, 99, 111, 109, 109, 111, 110, 39, 59>>,
      \* "; $(`x`) \ <newline> '
      <<34, 59, 32, 36, 40, 96, 120, 96, 41, 32, 92, 10, 39>>,
      \* e-acute, euro sign, U+1F600 (a surrogate pair)
      <<233, 8364, 55357, 56832>>,
      \* a high surrogate without its partner
      <<55357>> }

ChunkSeqs == UNION {[1..n -> Chunks] : n \in 1..MaxChunks}

\* the source texts (never empty: the handler rejects an empty code): up to
\* MaxChunks pieces, one after the other
Sources == {Concat(cs) : cs \in ChunkSeqs}

InitCreate ==
    /\ JobInit
    /\ RestInit
    /\ records = <<>>
    /\ archive = <<>>
    /\ src \in [framework : FrameworkNames, userCode : Sources]

\* config = FRAMEWORKS[framework.toLowerCase()], resourceLimits the defaults
CreateContainer ==
    /\ created = NoContainer
    /\ created' = createCompilationContainer(
                      src.userCode, FRAMEWORKS(toLowerCase(src.framework)),
                      src.framework, EffectiveLimits(NoBody, DOCKER_LIMITS))
    /\ UNCHANGED <<src, records, demuxed, archive, DOCKER_LIMITS,
                   DEFAULT_COMPILE_TIMEOUT_MS, tarStream, extracted, configStatus,
                   timerMs>>
    /\ UNCHANGED jobVars

NextCreate == CreateContainer

SpecCreate == InitCreate /\ [][NextCreate]_vars

(***************************************************************************)
(* PUT /config beside a job: the handler of PUT /config runs in one turn   *)
(* of the event loop, between any two turns of the POST /compile handler.  *)
(***************************************************************************)
\* isNaN(x) alone
InvalidSettingNaNOnly(x) == isNaN(x)

\* isNaN(x) || x <= 0
InvalidSetting(x) == isNaN(x) \/ LeqZero(x)

\* The handler of PUT /config on the defaults it finds: the four fields are
\* checked in the order timeout, memory, cpuPeriod, cpuQuota, each one
\* assigned before the next is looked at; the first invalid one returns 400.
UpdateConfig(b, timeout0, limits0) ==
    LET timeoutMs == IF b.timeout # Undefined THEN ToNumber(b.timeout) ELSE timeout0
        memBytes  == IF b.memory # Undefined THEN ToNumber(b.memory) ELSE limits0.MEMORY
        period    == IF b.cpuPeriod # Undefined THEN ToNumber(b.cpuPeriod)
                     ELSE limits0.CPU_PERIOD
        quota     == IF b.cpuQuota # Undefined THEN ToNumber(b.cpuQuota)
                     ELSE limits0.CPU_QUOTA
    IN  IF b.timeout # Undefined /\ InvalidSetting(timeoutMs)
        THEN [status |-> 400, timeout |-> timeout0, limits |-> limits0]
        ELSE IF b.memory # Undefined /\ InvalidSetting(memBytes)
        THEN [status |-> 400, timeout |-> timeoutMs, limits |-> limits0]
        ELSE IF b.cpuPeriod # Undefined /\ InvalidSetting(period)
        THEN [status |-> 400, timeout |-> timeoutMs,
              limits |-> [limits0 EXCEPT !.MEMORY = memBytes]]
        ELSE IF b.cpuQuota # Undefined /\ InvalidSetting(quota)
        THEN [status |-> 400, timeout |-> timeoutMs,
              limits |-> [limits0 EXCEPT !.MEMORY = memBytes, !.CPU_PERIOD = period]]
        ELSE [status |-> 200, timeout |-> timeoutMs,
              limits |-> [MEMORY |-> memBytes, CPU_PERIOD |-> period,
                          CPU_QUOTA |-> quota]]

PutConfig(b) ==
    LET u == UpdateConfig(b, DEFAULT_COMPILE_TIMEOUT_MS, DOCKER_LIMITS) IN
    /\ DEFAULT_COMPILE_TIMEOUT_MS' = u.timeout
    /\ DOCKER_LIMITS' = u.limits
    /\ configStatus' = u.status
    /\ UNCHANGED <<created, timerMs, records, demuxed, archive, src>>
    /\ UNCHANGED jobVars
    /\ UNCHANGED extractVars

\* values of a field of the body of PUT /config: absent, positive, zero,
\* not a number
ConfigInputs == {Undefined, Num(7), Num(0), Str("abc")}

MaxConfigFields == 2

\* the bodies of PUT /config: at most MaxConfigFields of the four fields; the
\* invalid value drawn is zero for timeout and cpuPeriod, and a non-number
\* for memory and cpuQuota
ConfigBodies ==
    {b \in [timeout : ConfigInputs \ {Str("abc")}, memory : ConfigInputs \ {Num(0)},
            cpuPeriod : ConfigInputs \ {Str("abc")}, cpuQuota : ConfigInputs \ {Num(0)}] :
        Cardinality({f \in DOMAIN b : b[f] # Undefined}) <= MaxConfigFields}

\* the bodies of POST /compile beside PUT /config: valid ones, with the
\* timeout and the memory override absent or present
OverrideInputs == {Undefined, Num(5)}

AcceptedBodies ==
    [code : {Str("source")}, framework : {Str("react")}, timeout : OverrideInputs,
     memory : OverrideInputs, cpuPeriod : {Undefined}, cpuQuota : {Undefined}]

AcceptedRequest == pc = "idle" /\ \E b \in AcceptedBodies : PostCompile(b)

NextConfig ==
    \/ \E b \in ConfigBodies : PutConfig(b)
    \/ AcceptedRequest
    \/ CreateResolves
    \/ CreateRejects
    \/ StartResolves
    \/ StartRejects
    \/ TimerFires
    \/ \E c \in StatusCodes : WaitResolves(c)
    \/ WaitRejects
    \/ \E buf \in LogBuffers : LogsResolves(buf)
    \/ LogsRejects
    \/ GetArchiveRejects
    \/ GetArchiveResolves
    \/ \E a \in Archives : ExtractFinishes(a)
    \/ ExtractErrors
    \/ RemoveResolves
    \/ RemoveRejects

SpecConfig == Init /\ [][NextConfig]_vars

(***************************************************************************)
(* Properties                                                              *)
(***************************************************************************)
Count(seq, x) == Cardinality({i \in DOMAIN seq : seq[i] = x})

Removals == Count(calls, "remove")

\* the job was settled by the deadline timer
TimedOut == result.settled /\ result.error = "Compilation timeout"

\* C1: a sandbox that createContainer returned is force-removed exactly
\* once: remove is never invoked twice, never without a handle, and it has
\* been invoked once when the handler has left its try block, whatever the
\* outcome (success, build failure, timeout, exception).
C1_RemovedExactlyOnce ==
    /\ Removals <= 1
    /\ ~container => Removals = 0
    /\ (container /\ pc \in {"remove", "done"}) => Removals = 1
    /\ (container /\ responses # <<>>) => Removals = 1

\* a timed-out job whose handler has finished and whose wait/logs settled
\* afterwards
C1_Witness ==
    /\ pc = "done"
    /\ container
    /\ TimedOut
    /\ wpc \in {"classified", "caught"}
    /\ Removals = 1

\* The request fails validation as the specification defines it: the
\* framework key is none of the three profiles, the source is missing, not
\* a string or empty, or a numeric field is present and not a positive
\* number.
KnownFramework(b) ==
    /\ FrameworkOf(b).t = "string"
    /\ toLowerCase(FrameworkOf(b).s) \in OwnKeys

ValidCode(b) == b.code.t = "string" /\ b.code.s # ""

NumericFields == {"timeout", "memory", "cpuPeriod", "cpuQuota"}

NotPositive(v) == isNaN(ToNumber(v)) \/ LeqZero(ToNumber(v))

FailsValidation(b) ==
    \/ ~KnownFramework(b)
    \/ ~ValidCode(b)
    \/ \E f \in NumericFields : b[f] # Undefined /\ NotPositive(b[f])

\* C2: a request that fails validation (its framework being a string key
\* or absent) is answered with a BadRequest result and createContainer is
\* never called for it.
C2_RejectedBeforeCreate ==
    (pc # "idle" /\ FrameworkOf(body).t = "string" /\ FailsValidation(body)) =>
        /\ responses # <<>>
        /\ responses[1].status = 400
        /\ Count(calls, "createContainer") = 0

\* "x is a finite number strictly greater than zero"
FinitePositive(x) == x.t = "number" /\ x.s = "" /\ x.n > 0

\* the override fields that are present and do not parse to a finite number
\* strictly greater than zero
Offending(b) ==
    {f \in NumericFields : b[f] # Undefined /\ ~FinitePositive(ToNumber(b[f]))}

\* C3: when an override field is present and does not parse to a finite
\* number greater than zero, the request (its framework and source being
\* valid) is rejected with a BadRequest error that names an offending field.
C3_InvalidOverrideRejected ==
    (pc # "idle" /\ KnownFramework(body) /\ ValidCode(body) /\ Offending(body) # {}) =>
        /\ responses # <<>>
        /\ responses[1].status = 400
        /\ FieldsNamed(responses[1].error) \cap Offending(body) # {}

\* the completion path settled the promise by reaching the classification:
\* wait and logs resolved, the decode loop ended, the armed timer was cleared
CompletionWon == wpc = "classified" /\ timeoutId = "cleared"

\* C4: when the sandbox completion wins the race, the job is a success if
\* and only if the exit status is 0 and the decoded transcript contains the
\* completion marker; otherwise it is a build failure whose result and
\* response carry the decoded transcript.
C4_Classification ==
    CompletionWon =>
        LET transcript == DemuxLogs(logsBuffer).cleanLogs IN
        /\ result.settled
        /\ result.success <=> (waitResult = 0 /\ Includes(transcript, MARKER))
        /\ ~result.success =>
              /\ result.error = "Build Failed"
              /\ result.logs = transcript
              /\ responses = <<BuildFailed(transcript)>>
        /\ result.success => \A i \in DOMAIN responses : responses[i].status # 400

\* exit status 0 without the marker: a build failure with its transcript
C4_Witness ==
    /\ CompletionWon
    /\ waitResult = 0
    /\ ~result.success
    /\ result.logs # <<>>
    /\ responses # <<>>

\* exit status 0 with the marker split over two records: a success
C4_WitnessSuccess ==
    /\ CompletionWon
    /\ result.success
    /\ logsBuffer # Frames(<<Stdout(MARKER)>>)

\* the step that settles the promise with the timer's result
TimerSettles == ~result.settled /\ result'.settled /\ result'.error = "Compilation timeout"

\* C5 as stated: a job ends timed out only if the deadline elapsed before
\* container.wait resolved, and then the result carries no transcript.
C5_TimeoutOnlyBeforeWait ==
    [][TimerSettles => (wpc = "wait" /\ result'.logs = <<>>)]_vars

\* C5 amended: a job ends timed out only if the deadline elapsed before the
\* completion path settled, that is while container.wait or the following
\* container.logs was still pending; the result and the response then carry
\* no transcript.
C5_TimeoutBeforeCompletion ==
    [][TimerSettles =>
          /\ wpc \in {"wait", "logs"}
          /\ timeoutId = "armed"
          /\ result'.logs = <<>>
          /\ responses' = <<BuildFailed(<<>>)>>]_vars

\* the timer fired after container.wait had resolved (logs was called
\* before the failure path called remove)
C5_Witness ==
    /\ TimedOut
    /\ calls = <<"createContainer", "start", "wait", "logs", "remove">>

\* C6: once the promise is settled its value is fixed; a later step of the
\* loser (the async body after a timeout; the timer cannot fire once
\* cleared) changes neither the response nor the handler's position and
\* calls no removal; no response once sent is changed; remove is never
\* called twice.
C6_LoserHasNoEffect ==
    [][/\ result.settled => result' = result
       /\ responses # <<>> => responses' = responses
       /\ (result.settled /\ (wpc' # wpc \/ timeoutId' # timeoutId)) =>
             /\ responses' = responses
             /\ pc' = pc
             /\ Count(calls', "remove") = Count(calls, "remove")
       /\ Count(calls', "remove") <= 1]_vars

\* the timer won and the async body settled afterwards, after the removal
C6_Witness ==
    /\ TimedOut
    /\ wpc \in {"classified", "caught"}
    /\ pc = "done"
    /\ responses = <<BuildFailed(<<>>)>>

\* C7: an exception raised while creating, starting or waiting on the
\* sandbox is reported as an internal-class error (status 500).
C7_ExceptionsAreInternal ==
    /\ (pc = "done" /\ calls = <<"createContainer">>) => responses[1].status = 500
    /\ (pc \in {"remove", "done"} /\ calls = <<"createContainer", "start", "remove">>)
          => responses[1].status = 500
    /\ (result.settled /\ result.error \in {"wait failed", "logs failed"})
          => (responses # <<>> /\ responses[1].status = 500)

\* the error classification a response carries
ErrorClass(r) == <<r.status, r.error>>

\* C8: the failure result distinguishes the classes: a timeout and an
\* infrastructure error are each classified differently from a build
\* failure and from each other.
C8_FailureClassesDistinct ==
    responses # <<>> =>
        /\ TimedOut => ErrorClass(responses[1]) # ErrorClass(BuildFailed(<<>>))
        /\ (result.settled /\ result.error \in {"wait failed", "logs failed"})
              => ErrorClass(responses[1]) # ErrorClass(BuildFailed(<<>>))
        /\ responses[1].status = 500
              => ErrorClass(responses[1]) # ErrorClass(BuildFailed(<<>>))

\* C9: the outcome of the removal changes nothing for the caller: while the
\* handler awaits remove, no step (remove resolving or rejecting) changes
\* the response already sent, and no error leaves the handler.
C9_CleanupFailureSwallowed ==
    [][pc = "remove" =>
          /\ Len(responses) = 1
          /\ responses' = responses
          /\ ~escaped'
          /\ pc' \in {"remove", "done"}]_vars

\* remove threw, the handler finished, its one response stands
C9_Witness ==
    /\ pc = "done"
    /\ cleanupErrors = 1
    /\ Len(responses) = 1
    /\ ~escaped

\* the records' payload bytes are well-formed UTF-8 when concatenated
WellFormedText(recs) ==
    LET text == Utf8Decode(Payloads(recs)) IN
    \A i \in DOMAIN text : text[i] # REPLACEMENT

\* C10: decoding the framing of a sequence of records yields the
\* concatenation of all payloads in record order (the text of the bytes the
\* sandbox emitted), for any number of records, payload length and tag.
C10_DemuxRoundTrip ==
    (demuxed.done /\ WellFormedText(records)) =>
        /\ ~demuxed.threw
        /\ demuxed.cleanLogs = Utf8Decode(Payloads(records))

\* The decoder the specification describes: an incomplete final header is
\* the end of the stream, the transcript is that of the complete records.
RECURSIVE CompleteRecords(_, _, _)
CompleteRecords(buf, offset, text) ==
    IF offset + 8 > Len(buf) THEN text
    ELSE LET length == readUInt32BE(buf, offset + 4) IN
         CompleteRecords(buf, offset + 8 + length,
                         text \o toString(buf, offset + 8, offset + 8 + length))

\* container.logs resolved with a buffer (not empty) before the timer fired
LogsArrivedFirst ==
    /\ wpc \in {"classified", "caught"}
    /\ timeoutId = "cleared"
    /\ logsBuffer # <<>>

\* C11: when the log buffer ends with an incomplete final header, the
\* decoder stops as at end-of-stream; the job's result carries the
\* transcript of the complete records and its classification is decided by
\* exit status and marker.
C11_TrailingBytesEndOfStream ==
    LogsArrivedFirst =>
        LET transcript == CompleteRecords(logsBuffer, 0, <<>>) IN
        /\ result.settled
        /\ result.logs = transcript
        /\ result.success <=> (waitResult = 0 /\ Includes(transcript, MARKER))

\* the final path segment of a name: what follows its last "/"
LastSegment(name) ==
    CHOOSE t \in {SubSeq(name, i, Len(name)) : i \in 1..(Len(name) + 1)} :
        /\ \A j \in 1..Len(t) : t[j] # "/"
        /\ Len(t) = Len(name) \/ name[Len(name) - Len(t)] = "/"

\* the name ends, case-sensitively, in .js, .css, .html or .map
OutputExtension(name) ==
    \E n \in 3..5 :
        /\ Len(name) >= n
        /\ SubSeq(name, Len(name) - n + 1, Len(name)) \in
               {<<".", "j", "s">>, <<".", "c", "s", "s">>, <<".", "m", "a", "p">>,
                <<".", "h", "t", "m", "l">>}

\* positions of the archive's regular files whose base name has an output
\* extension
Retained ==
    {i \in DOMAIN archive :
        archive[i].type = "file" /\ OutputExtension(LastSegment(archive[i].name))}

\* C12: once the extractor has finished, the keys of the artifact set are
\* exactly the base names of the archive's regular files with an output
\* extension (directories, symbolic links and other files add nothing), and
\* every key maps to the full body of such an entry of that base name.
C12_KeysExact ==
    tarStream = "finished" =>
        /\ DOMAIN extracted = {LastSegment(archive[i].name) : i \in Retained}
        /\ \A k \in DOMAIN extracted :
              \E i \in Retained :
                 /\ LastSegment(archive[i].name) = k
                 /\ extracted[k] = Utf8Decode(Concat(archive[i].chunks))

\* an archive with a directory, a file that is not retained and the nested
\* file d/c.html: the only key is c.html, with the body of both chunks
C12_Witness ==
    /\ tarStream = "finished"
    /\ \E i \in DOMAIN archive : archive[i].type = "directory"
    /\ \E i \in DOMAIN archive : archive[i].type = "file" /\ i \notin Retained
    /\ DOMAIN extracted = {<<"c", ".", "h", "t", "m", "l">>}
    /\ extracted[<<"c", ".", "h", "t", "m", "l">>] = <<233>>

\* C13: when several retained regular files of the archive have the same
\* base name, the artifact set has that one key, and its value is the body
\* of the one that comes last in the archive.
C13_LastWins ==
    tarStream = "finished" =>
        \A i \in Retained :
            LET k    == LastSegment(archive[i].name)
                same == {j \in Retained : LastSegment(archive[j].name) = k}
                last == CHOOSE j \in same : \A l \in same : l <= j
            IN  /\ k \in DOMAIN extracted
                /\ extracted[k] = Utf8Decode(Concat(archive[last].chunks))

\* x/m.js, then y/m.js, then the symbolic link z/m.js: the key m.js holds the
\* body of y/m.js
C13_Witness ==
    /\ tarStream = "finished"
    /\ Len(archive) = 3
    /\ archive[1].name = <<"x", "/", "m", ".", "j", "s">>
    /\ archive[2].name = <<"y", "/", "m", ".", "j", "s">>
    /\ archive[3].type = "symlink"
    /\ DOMAIN extracted = {<<"m", ".", "j", "s">>}
    /\ extracted[<<"m", ".", "j", "s">>] = <<50>>

\* the archive read failed: getArchive rejected, or the extractor emitted
\* 'error' while the stream was piped into it
ArchiveReadError == tarStream \in {"rejected", "errored"}

\* C14: on any archive-read error (getArchive rejecting, or the extractor
\* emitting an error mid-stream) the collector returns an empty artifact set
\* and the job is still answered as a success with an empty files mapping.
C14_ArchiveErrorGivesEmptySuccess ==
    (ArchiveReadError /\ responses # <<>>) => responses[1] = Compiled(NoFiles)

\* createCompilationContainer has run for the framework name 'angular'
AngularCreated == created # NoContainer /\ src.framework = "angular"

\* C15: Angular normalization is idempotent: normalizing the normalized
\* source again gives the same text, for every source text.
C15_NormalizationIdempotent ==
    AngularCreated =>
        LET once == prepareAngularCode(src.userCode) IN
        prepareAngularCode(once) = once

\* A-Z, a-z, 0-9, +, /, =
Base64Alphabet == (65..90) \cup (97..122) \cup (48..57) \cup {43, 47, 61}

\* the 6-bit value of a base64 character (0 for the padding)
Base64Value(c) ==
    IF c \in 65..90 THEN c - 65
    ELSE IF c \in 97..122 THEN c - 71
    ELSE IF c \in 48..57 THEN c + 4
    ELSE IF c = 43 THEN 62
    ELSE IF c = 47 THEN 63
    ELSE 0

\* `base64 -d` of a padded payload: the bytes of its g-th group of four
Base64DecodeGroup(p, g) ==
    LET at == 4 * (g - 1)
        v1 == Base64Value(p[at + 1])
        v2 == Base64Value(p[at + 2])
        v3 == Base64Value(p[at + 3])
        v4 == Base64Value(p[at + 4])
        three == <<v1 * 4 + (v2 \div 16), (v2 % 16) * 16 + (v3 \div 4), (v3 % 4) * 64 + v4>>
    IN  IF p[at + 3] = 61 THEN SubSeq(three, 1, 1)
        ELSE IF p[at + 4] = 61 THEN SubSeq(three, 1, 2)
        ELSE three

Base64Decode(p) ==
    Flatten([g \in 1..(Len(p) \div 4) |-> Base64DecodeGroup(p, g)], 1, Len(p) \div 4)

\* the text that well-formed UTF-8 bytes stand for, as UTF-16 code units:
\* what the lead byte at position i and its continuation bytes decode to
TextOfBytes(b, i) ==
    IF b[i] < 128 THEN <<b[i]>>
    ELSE IF b[i] < 192 THEN <<>>
    ELSE IF b[i] < 224 THEN <<(b[i] - 192) * 64 + (b[i + 1] - 128)>>
    ELSE IF b[i] < 240
    THEN <<(b[i] - 224) * 4096 + (b[i + 1] - 128) * 64 + (b[i + 2] - 128)>>
    ELSE LET cp == (b[i] - 240) * 262144 + (b[i + 1] - 128) * 4096
                     + (b[i + 2] - 128) * 64 + (b[i + 3] - 128) - 65536
         IN  <<55296 + (cp \div 1024), 56320 + (cp % 1024)>>

TextOf(b) == Flatten([i \in 1..Len(b) |-> TextOfBytes(b, i)], 1, Len(b))

\* the source that the normalizer stage is to produce for the profile the
\* framework value resolves to
NormalizedSource ==
    IF FRAMEWORKS(toLowerCase(src.framework)) = "angular"
    THEN prepareAngularCode(src.userCode)
    ELSE src.userCode

\* the payload embedded in the command holds base64 characters only
OnlyBase64Characters ==
    \A i \in DOMAIN created.Cmd.base64Code : created.Cmd.base64Code[i] \in Base64Alphabet

\* C16: the command embeds the source only in base64 form: the part of the
\* command that derives from the source holds base64 characters only, and
\* decoding it gives the normalized source, for every source text.
C16_EmbeddedOnlyAsBase64 ==
    created # NoContainer =>
        /\ OnlyBase64Characters
        /\ TextOf(Base64Decode(created.Cmd.base64Code)) = NormalizedSource

\* the part of C16 about the alphabet, on its own
PayloadIsBase64 == created # NoContainer => OnlyBase64Characters

\* the request's value as a number when the field is present, the default
\* otherwise
OverrideOr(v, default) == IF v = Undefined THEN default ELSE ToNumber(v)

\* C17: the limits createContainer is called with are, field by field, the
\* request's override when the field is present and the process-wide default
\* otherwise, so overriding one field leaves the other two at their
\* defaults; the effective timeout is the request's timeout when present and
\* the default timeout otherwise.
C17_LimitsFieldByField ==
    created # NoContainer =>
        /\ created.HostConfig.Memory = OverrideOr(body.memory, DOCKER_LIMITS.MEMORY)
        /\ created.HostConfig.CpuPeriod =
              OverrideOr(body.cpuPeriod, DOCKER_LIMITS.CPU_PERIOD)
        /\ created.HostConfig.CpuQuota =
              OverrideOr(body.cpuQuota, DOCKER_LIMITS.CPU_QUOTA)
        /\ compileTimeoutMs = OverrideOr(body.timeout, DEFAULT_COMPILE_TIMEOUT_MS)

\* a sandbox created for a request that overrides the memory only (and the
\* timeout): the two CPU fields are the defaults
C17_Witness ==
    /\ created # NoContainer
    /\ body.memory = Num(5)
    /\ body.cpuPeriod = Undefined
    /\ body.cpuQuota = Undefined
    /\ body.timeout = Num(5)
    /\ created.HostConfig.Memory = Num(5)
    /\ created.HostConfig.CpuPeriod = Num(COMPILER_CPU_PERIOD)
    /\ created.HostConfig.CpuQuota = Num(COMPILER_CPU_QUOTA)
    /\ compileTimeoutMs = Num(5)

\* C18: a job's limits and timeout are fixed when the request is accepted:
\* the sandbox is created with the overrides or the defaults of that moment,
\* and no later step (a PUT /config among them) changes the limits the
\* sandbox was created with, the job's timeout, or the delay its deadline
\* timer is armed with, which is that timeout.
C18_SnapshotPerJob ==
    [][ /\ (pc = "idle" /\ created' # NoContainer) =>
              /\ created'.HostConfig.Memory =
                    OverrideOr(body'.memory, DOCKER_LIMITS.MEMORY)
              /\ created'.HostConfig.CpuPeriod =
                    OverrideOr(body'.cpuPeriod, DOCKER_LIMITS.CPU_PERIOD)
              /\ created'.HostConfig.CpuQuota =
                    OverrideOr(body'.cpuQuota, DOCKER_LIMITS.CPU_QUOTA)
              /\ compileTimeoutMs' =
                    OverrideOr(body'.timeout, DEFAULT_COMPILE_TIMEOUT_MS)
        /\ created # NoContainer =>
              /\ created' = created
              /\ compileTimeoutMs' = compileTimeoutMs
              /\ resourceLimits' = resourceLimits
        /\ (timeoutId = "none" /\ timeoutId' = "armed") => timerMs' = compileTimeoutMs
        /\ timeoutId # "none" => timerMs' = timerMs
      ]_vars

\* a job without overrides whose timer is armed with the default of its
\* acceptance although PUT /config has changed every default since
C18_Witness ==
    /\ timeoutId = "armed"
    /\ body.timeout = Undefined
    /\ body.memory = Undefined
    /\ timerMs = Num(COMPILER_TIMEOUT_MS)
    /\ created.HostConfig.Memory = Num(COMPILER_MEMORY_KIB)
    /\ DEFAULT_COMPILE_TIMEOUT_MS = Num(7)
    /\ DOCKER_LIMITS.MEMORY = Num(7)
    /\ configStatus = 200

\* the command that removes the conflicting source files of a profile
CleanupOf(profile) ==
    CASE profile = "angular" ->
            "rm -f src/app/app.ts src/app/app.component.html src/app/app.component.css && "
      [] profile = "react" -> "rm -f src/*.css src/App.tsx && "
      [] profile = "vue" -> "rm -f src/components/*.vue && "

\* C19: whenever the framework value resolves to the angular profile (the
\* lookup lowercases the key, so 'Angular' and 'ANGULAR' resolve too), the
\* source written into the sandbox is the Angular-normalized source and the
\* command removes the angular profile's conflicting files; whenever it
\* resolves to react or vue, the source is passed through unchanged and that
\* profile's cleanup command is used.
C19_ProfileDecidesPreparation ==
    created # NoContainer =>
        LET profile == FRAMEWORKS(toLowerCase(src.framework)) IN
        /\ Base64Decode(created.Cmd.base64Code) = Utf8Encode(NormalizedSource)
        /\ created.Cmd.cleanupCmd = CleanupOf(profile)

\* the operations called so far
Called == {calls[i] : i \in DOMAIN calls}

\* every call of b comes after a call of a
Before(a, b) ==
    \A j \in DOMAIN calls : calls[j] = b => \E i \in 1..(j - 1) : calls[i] = a

\* C20: within one job the runtime operations are ordered: start is called
\* only after create returned a handle; wait and logs only after start
\* returned; getArchive only when the job was classified SUCCESS; remove only
\* after the response was produced and the archive extraction has ended, and
\* no getArchive follows it.
C20_OperationsOrdered ==
    /\ Before("createContainer", "start")
    /\ "start" \in Called => container
    /\ Before("start", "wait")
    /\ "wait" \in Called => pc \notin {"idle", "create", "start"}
    /\ Before("wait", "logs")
    /\ Before("logs", "getArchive")
    /\ "getArchive" \in Called => (result.settled /\ result.success)
    /\ "remove" \in Called =>
          /\ responses # <<>>
          /\ pc \notin {"extract", "extracting"}
          /\ tarStream # "open"
    /\ \A i, j \in DOMAIN calls :
          (calls[i] = "remove" /\ calls[j] = "getArchive") => j < i

\* a successful job: all six operations, in their order, the archive read
\* to its end before the removal
C20_Witness ==
    /\ calls = <<"createContainer", "start", "wait", "logs", "getArchive", "remove">>
    /\ tarStream = "finished"
    /\ Len(responses) = 1
    /\ responses[1].status = 200

\* the request was accepted: it passed validation and createContainer was
\* called for it
Accepted == "createContainer" \in Called

\* C21: an accepted request calls createContainer at most once and reports
\* its outcome once: whatever the outcome (build failure, timeout,
\* infrastructure error), no second sandbox is created, no operation of the
\* build is called a second time, and there is never a second response.
C21_NoRetry ==
    /\ Count(calls, "createContainer") <= 1
    /\ \A op \in {"start", "wait", "logs", "getArchive"} : Count(calls, op) <= 1
    /\ Len(responses) <= 1
    /\ (Accepted /\ pc = "done") => Len(responses) = 1

\* an infrastructure error: createContainer failed, was not called again,
\* and the request was answered once (500)
C21_Witness ==
    /\ pc = "done"
    /\ calls = <<"createContainer">>
    /\ responses = <<InternalError("createContainer failed")>>

\* C22: every POST /compile request receives exactly one response on every
\* path (each validation failure, a framework value that is not a string
\* included, build failure, timeout, exception, success): never two, and
\* one once the handler has come to its end.
C22_ExactlyOneResponse ==
    /\ Len(responses) <= 1
    /\ pc \in {"remove", "done"} => Len(responses) = 1

\* remove has been invoked and the request answered
CleanedUpAndAnswered == "remove" \in Called /\ responses # <<>>

Defaults == <<DEFAULT_COMPILE_TIMEOUT_MS, DOCKER_LIMITS>>

\* C24: a PUT /config request that is answered 400 leaves the default
\* timeout and the default memory, cpuPeriod and cpuQuota as they were, also
\* when an earlier field of its body was valid and a later one invalid.
C24_RejectedLeavesDefaults == [][configStatus' = 400 => Defaults' = Defaults]_vars

\* a positive number: not NaN, and not <= 0
Positive(x) == x.t = "number" /\ ~isNaN(x) /\ ~LeqZero(x)

\* the request in progress overrides none of the three limits
WithoutOverrides ==
    pc # "idle" /\ body.memory = Undefined /\ body.cpuPeriod = Undefined
                /\ body.cpuQuota = Undefined

\* C25: whatever PUT /config requests were answered, accepted or rejected
\* and interleaved with a compile request, the default timeout and the
\* default memory, cpuPeriod and cpuQuota are numbers greater than zero, and
\* a compile request that overrides no limit is never answered with the
\* resource-limit validation error.
C25_DefaultsStayPositive ==
    /\ Positive(DEFAULT_COMPILE_TIMEOUT_MS)
    /\ Positive(DOCKER_LIMITS.MEMORY)
    /\ Positive(DOCKER_LIMITS.CPU_PERIOD)
    /\ Positive(DOCKER_LIMITS.CPU_QUOTA)
    /\ WithoutOverrides => \A i \in DOMAIN responses : responses[i] # BadRequest(MsgLimits)

\* a rejected PUT /config has changed the default memory, and a compile
\* request without overrides was accepted with it
C25_Witness ==
    /\ configStatus = 400
    /\ DOCKER_LIMITS.MEMORY = Num(7)
    /\ WithoutOverrides
    /\ resourceLimits.memory = Num(7)
    /\ Accepted

=============================================================================
